---- MODULE Spec2Model ----
(***************************************************************************)
(* Expression parsing and type checking of the style-spec expression       *)
(* language: ParsingContext, parseExpression and checkSubtype              *)
(* (src/unnamed/part_000) and the Curve expression                         *)
(* (src/src/style-spec/function/definitions/curve.js).                     *)
(*                                                                         *)
(* The parser is a synchronous recursive descent.  The state is the call   *)
(* stack (one frame per active call of parseExpression or Curve.parse,     *)
(* with its arguments, locals and position) and the errors array that      *)
(* every context derived from the root context shares.  One action models  *)
(* one step of a function on top of the stack.  The elements of a curve's  *)
(* argument list are drawn when Curve.parse first reads them.              *)
(***************************************************************************)
EXTENDS Integers, Sequences, FiniteSets, TLC

VARIABLES
    stack,       \* the call stack, innermost frame last
    errors,      \* contents of the errors array shared through the contexts
    returns,     \* the calls that have returned, in order: frame and value
    serialized   \* result of serialize() on the expression the host got back

vars == <<stack, errors, returns, serialized>>

\* number of label/value pairs Curve.parse is given at most
MaxStops == 2
\* largest stop label
MaxLabel == 1
\* curves nested in curves: the number of Curve.parse frames on the stack
MaxDepth == 2
\* nesting of array types handed to checkSubtype
MaxTypeDepth == 2

(***************************************************************************)
(* JavaScript values.  Every value is a record, so that values of          *)
(* different JavaScript types are comparable and unequal.                  *)
(***************************************************************************)
JSNull == [null |-> TRUE]
JSUndefined == [undefined |-> TRUE]
JSString(s) == [string |-> s]
JSNumber(n) == [number |-> n]
JSBoolean(b) == [boolean |-> b]
\* An array is its length and the elements read so far (a prefix of it): the
\* elements of an argument list are drawn when the parser reads them.
JSArray(a) == [array |-> a, length |-> Len(a)]
JSObject == [object |-> TRUE]
JSFunction == [function |-> TRUE]

\* typeof x
TypeOf(x) ==
    CASE "string" \in DOMAIN x -> "string"
      [] "number" \in DOMAIN x -> "number"
      [] "boolean" \in DOMAIN x -> "boolean"
      [] "undefined" \in DOMAIN x -> "undefined"
      [] "function" \in DOMAIN x -> "function"
      [] OTHER -> "object"

\* Array.isArray(x)
IsArray(x) == "array" \in DOMAIN x

\* the truth value of x in a condition: null, undefined and '' are falsy (0 and
\* false never reach a condition of the modelled code as an object or a type)
Truthy(x) == x \notin {JSNull, JSUndefined, JSString("")}

(***************************************************************************)
(* Types (./types): a record with a kind, and for arrays an itemType and,  *)
(* when the length is fixed, N.                                            *)
(***************************************************************************)
NullType == [kind |-> "Null"]
NumberType == [kind |-> "Number"]
StringType == [kind |-> "String"]
BooleanType == [kind |-> "Boolean"]
ColorType == [kind |-> "Color"]
ObjectType == [kind |-> "Object"]
ValueType == [kind |-> "Value"]
ErrorType == [kind |-> "Error"]

\* array(itemType) and array(itemType, N)
array(itemType) == [kind |-> "Array", itemType |-> itemType]
arrayN(itemType, N) == [kind |-> "Array", itemType |-> itemType, N |-> N]

\* x.kind: undefined when x has no such property (a string, for one)
Kind(x) == IF "kind" \in DOMAIN x THEN x.kind ELSE "undefined"

\* typeof x.N === 'number'
HasN(x) == "N" \in DOMAIN x

RECURSIVE toString(_)
toString(type) ==
    IF Kind(type) = "Array"
    THEN IF HasN(type)
         THEN "Array<" \o toString(type.itemType) \o ", " \o ToString(type.N) \o ">"
         ELSE "Array<" \o toString(type.itemType) \o ">"
    ELSE Kind(type)

(***************************************************************************)
(* ParsingError and ParsingContext                                         *)
(***************************************************************************)
ParsingError(key, message) == [key |-> key, message |-> message]

\* keys.map(k => `[${k}]`).join('')
RECURSIVE KeyOf(_)
KeyOf(path) ==
    IF path = <<>> THEN ""
    ELSE "[" \o ToString(Head(path)) \o "]" \o KeyOf(Tail(path))

\* new ParsingContext(definitions, path, expectedType, scope, errors).  The
\* registry and the scope are the same in every context of a parse and are left
\* out; errors is a reference to the one shared array, the variable errors.
ParsingContext(path, expectedType) ==
    [path |-> path, key |-> KeyOf(path), expectedType |-> expectedType]

\* context.concat(index, expectedType): expectedType is JSUndefined when omitted
concat(context, index, expectedType) ==
    ParsingContext(
        IF TypeOf(index) = "number" THEN Append(context.path, index.number) ELSE context.path,
        IF Truthy(expectedType) THEN expectedType ELSE JSNull)

\* context.error(error, ...keys): the ParsingError it pushes onto the shared
\* array (the call itself returns null)
error(context, message, keys) ==
    ParsingError(context.key \o KeyOf(keys), message)

(***************************************************************************)
(* checkSubtype(expected, t, context?)                                     *)
(***************************************************************************)
\* the message built on entry
SubtypeMessage(expected, t) ==
    "Expected " \o toString(expected) \o " but found " \o toString(t) \o " instead."

\* ValueMembers without its array member
ValueMembersNoArray ==
    << NullType, NumberType, StringType, BooleanType, ColorType, ObjectType >>

\* the members of Value
ValueMembers ==
    << NullType, NumberType, StringType, BooleanType, ColorType, ObjectType,
       array(ValueType) >>

\* `if (context) context.error(error); return error;`
SubtypeFailure(expected, t, context) ==
    [ ret |-> JSString(SubtypeMessage(expected, t)),
      pushed |-> IF Truthy(context)
                 THEN << error(context, SubtypeMessage(expected, t), <<>>) >>
                 ELSE <<>> ]

\* `return null;`
SubtypeSuccess(context) ==
    [ ret |-> JSNull, pushed |-> <<>> ]

RECURSIVE checkSubtype(_, _, _)

\* CheckArray without the comparison of the lengths
CheckArrayAnyLength(expected, t, context) ==
    IF Kind(t) = "Array"
    THEN LET itemError == checkSubtype(expected.itemType, t.itemType, JSUndefined).ret IN
         IF Truthy(itemError) THEN SubtypeFailure(expected, t, context)
         ELSE SubtypeSuccess(context)
    ELSE SubtypeFailure(expected, t, context)

\* the branch for expected.kind === 'Array'
CheckArray(expected, t, context) ==
    IF Kind(t) = "Array"
    THEN LET itemError == checkSubtype(expected.itemType, t.itemType, JSUndefined).ret IN
         IF Truthy(itemError) THEN SubtypeFailure(expected, t, context)
         ELSE IF HasN(expected) /\ (~HasN(t) \/ expected.N # t.N)
              THEN SubtypeFailure(expected, t, context)
              ELSE SubtypeSuccess(context)
    ELSE SubtypeFailure(expected, t, context)

\* the branch for expected.kind === 'Value'; the member attempts are made
\* without a context
CheckValue(expected, t, context) ==
    IF Kind(t) = "Value" THEN SubtypeSuccess(context)
    ELSE IF \E i \in 1..Len(ValueMembers) :
                ~Truthy(checkSubtype(ValueMembers[i], t, JSUndefined).ret)
         THEN SubtypeSuccess(context)
         ELSE SubtypeFailure(expected, t, context)

\* ret is null on success and the message on failure; pushed is what the call
\* appends to the shared errors array
checkSubtype(expected, t, context) ==
    IF Kind(t) = "Error" THEN SubtypeSuccess(context)
    ELSE IF Kind(expected) = "Value" THEN CheckValue(expected, t, context)
    ELSE IF Kind(expected) = "Array" THEN CheckArray(expected, t, context)
    ELSE IF Kind(t) = Kind(expected) THEN SubtypeSuccess(context)
    ELSE SubtypeFailure(expected, t, context)

(***************************************************************************)
(* JavaScript helpers                                                      *)
(***************************************************************************)
\* a[i] with i counted from 0: undefined past the end
At(a, i) == IF i < Len(a) THEN a[i + 1] ELSE JSUndefined

RECURSIVE Join(_)
RECURSIVE String(_)
\* a.join(',') of the strings of a's elements
Join(a) ==
    IF a = <<>> THEN ""
    ELSE IF Len(a) = 1 THEN String(a[1])
    ELSE String(a[1]) \o "," \o Join(Tail(a))

\* String(x)
String(x) ==
    CASE "string" \in DOMAIN x -> x.string
      [] "number" \in DOMAIN x -> ToString(x.number)
      [] "boolean" \in DOMAIN x -> IF x.boolean THEN "true" ELSE "false"
      [] "undefined" \in DOMAIN x -> "undefined"
      [] "null" \in DOMAIN x -> "null"
      [] "array" \in DOMAIN x -> Join(x.array)
      [] "function" \in DOMAIN x -> "function () {}"
      [] OTHER -> "[object Object]"

(***************************************************************************)
(* Expressions.  Curve is the class of curve.js; every other expression    *)
(* kind of the registry is External: it has a key, a type, and the JSON it *)
(* was parsed from, which is what its serialize() gives back.              *)
(***************************************************************************)
\* new Curve(key, type, interpolation, input, stops)
Curve(key, type, interpolation, input, stops) ==
    [ class |-> "Curve", key |-> key, type |-> type, interpolation |-> interpolation,
      input |-> input, stops |-> stops ]

External(key, type, json) ==
    [ class |-> "External", key |-> key, type |-> type, json |-> json ]

IsExpression(x) == "class" \in DOMAIN x

\* The registered expression kinds other than curve, by operator name, with
\* the type of the expression each parser returns; "failing-op" is a kind
\* whose parser rejects its arguments.
ExternalTypes ==
    [ n \in { "number-op", "string-op", "color-op", "value-op", "error-op",
              "array-op", "array2-op", "failing-op" } |->
        CASE n = "number-op" -> NumberType
          [] n = "string-op" -> StringType
          [] n = "color-op" -> ColorType
          [] n = "value-op" -> ValueType
          [] n = "error-op" -> ErrorType
          [] n = "array-op" -> array(NumberType)
          [] n = "array2-op" -> arrayN(NumberType, 2)
          [] OTHER -> NullType ]

\* context.definitions: the operator names with a registered parser
definitions == DOMAIN ExternalTypes \cup {"curve", "literal"}

\* the type of ["literal", value] for a scalar value
LiteralType(value) ==
    CASE TypeOf(value) = "number" -> NumberType
      [] TypeOf(value) = "string" -> StringType
      [] TypeOf(value) = "boolean" -> BooleanType
      [] OTHER -> NullType

\* Expr.parse(expr, context) of a registered kind other than curve: the
\* expression, or null with one diagnostic recorded at the context's key
ExternalParse(expr, context) ==
    LET op == expr.array[1].string IN
    IF op = "failing-op"
    THEN [ ret |-> JSNull, pushed |-> << error(context, "Invalid arguments.", <<>>) >> ]
    ELSE [ ret |-> External(context.key,
                            IF op = "literal" THEN LiteralType(At(expr.array, 1))
                            ELSE ExternalTypes[op],
                            expr),
           pushed |-> <<>> ]

(***************************************************************************)
(* Curve.parse: the interpolation argument (curve.js lines 41-74)          *)
(***************************************************************************)
\* typeof t !== 'number' || t < 0 || t > 1
BadControlPoint(t) == TypeOf(t) # "number" \/ t.number < 0 \/ t.number > 1

\* ret is the interpolation object, or null with the diagnostic in pushed
ParseInterpolation(interpolation, context) ==
    IF ~IsArray(interpolation) \/ interpolation.length = 0
    THEN [ ret |-> JSNull,
           pushed |-> << error(context,
               "Expected an interpolation type expression, but found "
                   \o String(interpolation) \o " instead.", <<1>>) >> ]
    ELSE LET a == interpolation.array IN
    IF a[1] = JSString("step") THEN [ ret |-> [name |-> "step"], pushed |-> <<>> ]
    ELSE IF a[1] = JSString("linear") THEN [ ret |-> [name |-> "linear"], pushed |-> <<>> ]
    ELSE IF a[1] = JSString("exponential")
    THEN LET base == At(a, 1) IN
         IF TypeOf(base) # "number"
         THEN [ ret |-> JSNull,
                pushed |-> << error(context,
                    "Exponential interpolation requires a numeric base.", <<1, 1>>) >> ]
         ELSE [ ret |-> [name |-> "exponential", base |-> base], pushed |-> <<>> ]
    ELSE IF a[1] = JSString("cubic-bezier")
    THEN LET controlPoints == Tail(a) IN
         IF Len(controlPoints) # 4
                \/ \E k \in 1..Len(controlPoints) : BadControlPoint(controlPoints[k])
         THEN [ ret |-> JSNull,
                pushed |-> << error(context,
                    "cubic bezier interpolation requires four numeric arguments with values between 0 and 1.",
                    <<1>>) >> ]
         ELSE [ ret |-> [name |-> "cubic-bezier", controlPoints |-> controlPoints],
                pushed |-> <<>> ]
    ELSE [ ret |-> JSNull,
           pushed |-> << error(context,
               "Unknown interpolation type " \o String(a[1]), <<1, 0>>) >> ]

\* the test of curve.js lines 100-103: the output type cannot be interpolated
NotInterpolatable(interpolation, outputType) ==
    /\ interpolation.name # "step"
    /\ outputType # NumberType
    /\ outputType # ColorType
    /\ ~(Kind(outputType) = "array" /\ outputType.itemType = NumberType)

\* x.name
Name(x) == IF "name" \in DOMAIN x THEN x.name ELSE "undefined"

NotInterpolatableMessage(interpolation, outputType) ==
    "Type " \o Name(outputType) \o " is not interpolatable, and thus cannot be used as a "
        \o interpolation.name \o " curve's output type."

(***************************************************************************)
(* serialize()                                                             *)
(***************************************************************************)
\* SerializeInterpolation without the base of an exponential interpolation
SerializeInterpolationNoBase(interpolation) ==
    IF interpolation.name = "cubic-bezier"
    THEN JSArray(<< JSString(interpolation.name) >> \o interpolation.controlPoints)
    ELSE JSArray(<< JSString(interpolation.name) >>)

\* the interpolation array of Curve.serialize (curve.js lines 134-139)
SerializeInterpolation(interpolation) ==
    IF interpolation.name = "exponential"
    THEN JSArray(<< JSString(interpolation.name), interpolation.base >>)
    ELSE IF interpolation.name = "cubic-bezier"
    THEN JSArray(<< JSString(interpolation.name) >> \o interpolation.controlPoints)
    ELSE JSArray(<< JSString(interpolation.name) >>)

RECURSIVE serialize(_)
RECURSIVE SerializeStops(_)
\* the label and the serialized value of each stop, in order
SerializeStops(stops) ==
    IF stops = <<>> THEN <<>>
    ELSE << stops[1][1], serialize(stops[1][2]) >> \o SerializeStops(Tail(stops))

\* expression.serialize()
serialize(expression) ==
    IF expression.class = "Curve"
    THEN JSArray(<< JSString("curve"),
                    SerializeInterpolation(expression.interpolation),
                    serialize(expression.input) >>
                 \o SerializeStops(expression.stops))
    ELSE expression.json

(***************************************************************************)
(* The inputs                                                              *)
(***************************************************************************)
\* length of the longest argument list: the operator, the interpolation, the
\* input, MaxStops pairs and one label without a value
MaxArgs == 2 * MaxStops + 4

\* a call of an operator that takes no arguments: [op]
Op(name) == JSArray(<< JSString(name) >>)

\* the JSON values the host hands to parseExpression, other than curves: every
\* shape parseExpression tells apart and every registered kind
LeafExprs ==
    { JSNull, JSNumber(7), JSString("red"), JSBoolean(TRUE),
      JSUndefined, JSObject, JSFunction,
      JSArray(<<>>), JSArray(<< JSNumber(1) >>), Op("unknown-op") }
    \cup { Op(n) : n \in DOMAIN ExternalTypes }

\* a curve of n elements of which only the operator has been read
UnreadCurve(n) == [array |-> << JSString("curve") >>, length |-> n]

\* the values of a stop's value
ValueExprs ==
    { Op("error-op"), Op("string-op"), Op("failing-op"), JSNumber(7) }

\* the values of the input of the curve of the depth-th Curve.parse frame: the
\* same and, down to MaxDepth, a curve of one stop
InputExprs(depth) ==
    ValueExprs \cup IF depth < MaxDepth THEN { UnreadCurve(5) } ELSE {}

\* the values of the interpolation argument: all for the outermost curve, two
\* for a nested one
InterpolationArgs(depth) ==
    IF depth > 1 THEN { Op("step"), JSArray(<<>>) }
    ELSE
    { JSString("linear"), JSArray(<<>>),
      Op("step"), Op("linear"), Op("bounce"),
      JSArray(<< JSString("step"), JSNumber(1) >>),
      JSArray(<< JSString("exponential"), JSNumber(2) >>),
      JSArray(<< JSString("exponential"), JSString("fast") >>),
      JSArray(<< JSString("exponential") >>),
      JSArray(<< JSString("exponential"), JSNumber(2), JSNumber(3) >>),
      JSArray(<< JSString("cubic-bezier"), JSNumber(0), JSNumber(1), JSNumber(1), JSNumber(0) >>),
      JSArray(<< JSString("cubic-bezier"), JSNumber(0), JSNumber(1), JSNumber(1) >>),
      JSArray(<< JSString("cubic-bezier"), JSNumber(0), JSNumber(2), JSNumber(1), JSNumber(0) >>),
      JSArray(<< JSString("cubic-bezier"), JSNumber(0), JSString("1"), JSNumber(1), JSNumber(0) >>) }

\* the values of a stop label: numbers and a computed expression for the
\* outermost curve, one number for a nested one
Labels(depth) ==
    IF depth > 1 THEN { JSNumber(0) }
    ELSE { JSNumber(n) : n \in 0..MaxLabel } \cup { Op("number-op") }

\* the types a caller expects of an expression
ExpectedTypes ==
    { NumberType, StringType, ColorType, ValueType, ObjectType,
      array(NumberType), arrayN(NumberType, 2), array(ValueType) }

\* the types checkSubtype is given, array types nested to the given depth
RECURSIVE Types(_)
Types(depth) ==
    LET base == { NullType, NumberType, StringType, BooleanType, ColorType,
                  ObjectType, ValueType, ErrorType } IN
    IF depth = 0 THEN base
    ELSE LET items == Types(depth - 1) IN
         items \cup { array(t) : t \in items }
               \cup { arrayN(t, n) : t \in items, n \in {2, 3} }

\* a diagnostic of an earlier parse with the same errors array
PriorError == ParsingError("[0]", "prior")

(***************************************************************************)
(* Frames                                                                  *)
(***************************************************************************)
\* parseExpression(expr, context), about to run.  recv receives what the call
\* it is waiting for returned; entry is the errors array on entry.
ParseExpressionFrame(expr, context, entry) ==
    [ fn |-> "parseExpression", pc |-> "enter", expr |-> expr, context |-> context,
      recv |-> JSUndefined, entry |-> entry ]

\* Curve.parse(args, context, expectedType), about to run
CurveParseFrame(args, context, expectedType, entry) ==
    [ fn |-> "Curve.parse", pc |-> "arity", args |-> args, context |-> context,
      expectedType |-> expectedType, interpolation |-> JSUndefined,
      input |-> JSUndefined, stops |-> <<>>, outputType |-> JSUndefined, i |-> 0,
      label |-> JSUndefined, recv |-> JSUndefined, entry |-> entry ]

\* checkSubtype(expected, t, context), about to run
CheckSubtypeFrame(expected, t, context, entry) ==
    [ fn |-> "checkSubtype", pc |-> "enter", expected |-> expected, t |-> t,
      context |-> context, entry |-> entry ]

Top == stack[Len(stack)]

Running(fn, pc) == stack # <<>> /\ Top.fn = fn /\ Top.pc = pc

\* the number of Curve.parse frames on the stack
Depth == Cardinality({ k \in 1..Len(stack) : stack[k].fn = "Curve.parse" })

\* the top frame goes on as frame
Step(frame, pushed) ==
    /\ stack' = [stack EXCEPT ![Len(stack)] = frame]
    /\ errors' = errors \o pushed
    /\ UNCHANGED <<returns, serialized>>

\* the top frame goes on as frame and calls callee
Call(frame, callee) ==
    /\ stack' = Append([stack EXCEPT ![Len(stack)] = frame], callee)
    /\ UNCHANGED <<errors, returns, serialized>>

\* the top frame, in its final form frame (pc is the step it returns from),
\* returns val after pushing pushed; json is the JSON value the call was given,
\* with every element it read
Return(frame, val, json, pushed) ==
    /\ stack' = IF Len(stack) = 1 THEN <<>>
                ELSE [SubSeq(stack, 1, Len(stack) - 1) EXCEPT
                         ![Len(stack) - 1].recv = [val |-> val, json |-> json]]
    /\ errors' = errors \o pushed
    /\ returns' = Append(returns, [frame |-> frame, val |-> val, errors |-> errors \o pushed])
    /\ UNCHANGED serialized

\* array a with element x read
Read(a, x) == [a EXCEPT !.array = Append(a.array, x)]

(***************************************************************************)
(* parseExpression (part_000 lines 146-181)                                *)
(***************************************************************************)
\* lines 147-149: a scalar is wrapped as a literal
Normalize(expr) ==
    IF expr = JSNull \/ TypeOf(expr) \in {"string", "boolean", "number"}
    THEN JSArray(<< JSString("literal"), expr >>)
    ELSE expr

\* lines 147-164 and 173-180: up to the call of the registered parser
ParseExpressionEnter ==
    /\ Running("parseExpression", "enter")
    /\ LET f == Top
           context == f.context
           expr == Normalize(f.expr)
           g == [f EXCEPT !.expr = expr, !.pc = "check"]
           Fail(message, keys) ==
               Return([f EXCEPT !.expr = expr], JSNull, expr,
                      << error(context, message, keys) >>)
       IN
       IF IsArray(expr)
       THEN IF expr.length = 0
            THEN Fail("Expected an array with at least one element. If you wanted a literal array, use [\"literal\", []].", <<>>)
            ELSE LET op == expr.array[1] IN
                 IF TypeOf(op) # "string"
                 THEN Fail("Expression name must be a string, but found " \o TypeOf(op)
                           \o " instead. If you wanted a literal array, use [\"literal\", [...]].", <<0>>)
                 ELSE IF op.string = "curve"
                 THEN \* Curve.parse(expr, context): no third argument
                      Call(g, CurveParseFrame(expr, context, JSUndefined, errors))
                 ELSE IF op.string \in definitions
                 THEN LET r == ExternalParse(expr, context) IN
                      Step([g EXCEPT !.recv = [val |-> r.ret, json |-> expr]], r.pushed)
                 ELSE Fail("Unknown expression \"" \o op.string
                           \o "\". If you wanted a literal array, use [\"literal\", [...]].", <<0>>)
       ELSE IF TypeOf(expr) = "undefined"
       THEN Fail("'undefined' value invalid. Use null instead.", <<>>)
       ELSE IF TypeOf(expr) = "object"
       THEN Fail("Bare objects invalid. Use [\"literal\", {...}] instead.", <<>>)
       ELSE Fail("Expected an array, but found " \o TypeOf(expr) \o " instead.", <<>>)

\* CheckExpected with the test of checkSubtype's result inverted
CheckExpectedInverted(parsed, context) ==
    IF ~Truthy(parsed) THEN [ ret |-> JSNull, pushed |-> <<>> ]
    ELSE IF Truthy(context.expectedType)
    THEN LET r == checkSubtype(context.expectedType, parsed.type, context) IN
         IF ~Truthy(r.ret) THEN [ ret |-> JSNull, pushed |-> r.pushed ]
         ELSE [ ret |-> parsed, pushed |-> r.pushed ]
    ELSE [ ret |-> parsed, pushed |-> <<>> ]

\* lines 165-170, with what the registered parser returned: the value returned
\* and the diagnostics pushed
CheckExpected(parsed, context) ==
    IF ~Truthy(parsed) THEN [ ret |-> JSNull, pushed |-> <<>> ]
    ELSE IF Truthy(context.expectedType)
    THEN LET r == checkSubtype(context.expectedType, parsed.type, context) IN
         IF Truthy(r.ret) THEN [ ret |-> JSNull, pushed |-> r.pushed ]
         ELSE [ ret |-> parsed, pushed |-> r.pushed ]
    ELSE [ ret |-> parsed, pushed |-> <<>> ]

ParseExpressionCheck ==
    /\ Running("parseExpression", "check")
    /\ LET f == Top
           r == CheckExpected(f.recv.val, f.context)
       IN Return([f EXCEPT !.expr = f.recv.json], r.ret, f.recv.json, r.pushed)

(***************************************************************************)
(* Curve.parse (curve.js lines 36-108)                                     *)
(***************************************************************************)
\* rest.length, rest being the arguments after the operator, the
\* interpolation and the input
RestLength(f) == f.args.length - 3

\* lines 37-39
CurveParseArity ==
    /\ Running("Curve.parse", "arity")
    /\ LET f == Top
           n == IF f.args.length = 0 THEN 0 ELSE f.args.length - 1
       IN
       IF n < 4
       THEN Return(f, JSNull, f.args,
                   << error(f.context, "Expected at least 2 arguments, but found only "
                                           \o ToString(n) \o ".", <<>>) >>)
       ELSE Step([f EXCEPT !.pc = "interpolation"], <<>>)

\* lines 41-74
CurveParseInterpolation ==
    /\ Running("Curve.parse", "interpolation")
    /\ \E interpolation \in InterpolationArgs(Depth) :
        LET f == [Top EXCEPT !.args = Read(Top.args, interpolation)]
            r == ParseInterpolation(interpolation, f.context)
        IN
        IF r.ret = JSNull
        THEN Return(f, JSNull, f.args, r.pushed)
        ELSE Step([f EXCEPT !.interpolation = r.ret, !.pc = "input"], <<>>)

\* line 76: parseExpression(input, context.concat(2, 'curve'), NumberType).
\* parseExpression takes two parameters: the third argument is dropped.
CurveParseInput ==
    /\ Running("Curve.parse", "input")
    /\ \E input \in InputExprs(Depth) :
        Call([Top EXCEPT !.pc = "input returned"],
             ParseExpressionFrame(input,
                 concat(Top.context, JSNumber(2), JSString("curve")), errors))

\* CurveParseInputReturned reporting the failure of the input once more
CurveParseInputReportedAgain ==
    /\ Running("Curve.parse", "input returned")
    /\ LET f == [Top EXCEPT !.args = Read(Top.args, Top.recv.json)]
           input == f.recv.val
       IN
       IF ~Truthy(input)
       THEN Return(f, JSNull, f.args,
                   << error(f.context, "Expected a numeric input expression.", <<2>>) >>)
       ELSE Step([f EXCEPT !.input = input, !.outputType = f.expectedType,
                           !.pc = "label"], <<>>)

\* lines 77-81
CurveParseInputReturned ==
    /\ Running("Curve.parse", "input returned")
    /\ LET f == [Top EXCEPT !.args = Read(Top.args, Top.recv.json)]
           input == f.recv.val
       IN
       IF ~Truthy(input)
       THEN Return(f, JSNull, f.args, <<>>)
       ELSE Step([f EXCEPT !.input = input, !.outputType = f.expectedType,
                           !.pc = "label"], <<>>)

\* lines 82-92: the loop test and the checks of the label
CurveParseLabel ==
    /\ Running("Curve.parse", "label")
    /\ IF Top.i >= RestLength(Top)
       THEN Step([Top EXCEPT !.pc = "final"], <<>>)
       ELSE \E label \in Labels(Depth) :
            LET f == [Top EXCEPT !.args = Read(Top.args, label), !.label = label] IN
            IF TypeOf(label) # "number"
            THEN Return(f, JSNull, f.args,
                     << error(f.context,
                         "Input/output pairs for \"curve\" expressions must be defined using literal numeric values (not computed expressions) for the input values.",
                         <<f.i + 3>>) >>)
            ELSE IF Len(f.stops) # 0 /\ f.stops[Len(f.stops)][1].number > label.number
            THEN Return(f, JSNull, f.args,
                     << error(f.context,
                         "Input/output pairs for \"curve\" expressions must be arranged with input values in strictly ascending order.",
                         <<f.i + 3>>) >>)
            ELSE Step([f EXCEPT !.pc = "value"], <<>>)

\* line 94: parseExpression(value, context.concat(i + 4, 'curve'), outputType);
\* the third argument is dropped.  rest[i + 1] is undefined past the end.
CurveParseValue ==
    /\ Running("Curve.parse", "value")
    /\ \E value \in IF Top.i + 1 < RestLength(Top) THEN ValueExprs ELSE {JSUndefined} :
        Call([Top EXCEPT !.pc = "value returned"],
             ParseExpressionFrame(value,
                 concat(Top.context, JSNumber(Top.i + 4), JSString("curve")), errors))

\* lines 95-98
CurveParseValueReturned ==
    /\ Running("Curve.parse", "value returned")
    /\ LET f == IF Top.i + 1 < RestLength(Top)
                THEN [Top EXCEPT !.args = Read(Top.args, Top.recv.json)]
                ELSE Top
           parsed == f.recv.val
       IN
       IF ~Truthy(parsed)
       THEN Return(f, JSNull, f.args, <<>>)
       ELSE Step([f EXCEPT
                    !.outputType = IF Truthy(f.outputType) THEN f.outputType ELSE parsed.type,
                    !.stops = Append(f.stops, << f.label, parsed >>),
                    !.i = f.i + 2,
                    !.pc = "label"], <<>>)

\* lines 100-107
CurveParseFinal ==
    /\ Running("Curve.parse", "final")
    /\ LET f == Top IN
       IF NotInterpolatable(f.interpolation, f.outputType)
       THEN Return(f, JSNull, f.args,
                   << error(f.context,
                            NotInterpolatableMessage(f.interpolation, f.outputType), <<1>>) >>)
       ELSE Return(f, Curve(f.context.key, f.outputType, f.interpolation, f.input, f.stops),
                   f.args, <<>>)

(***************************************************************************)
(* The host                                                                *)
(***************************************************************************)
\* checkSubtype(expected, t, context) called by the host
CheckSubtypeCall ==
    /\ Running("checkSubtype", "enter")
    /\ LET f == Top
           r == checkSubtype(f.expected, f.t, f.context)
       IN Return(f, r.ret, JSUndefined, r.pushed)

\* what the host's call returned
Returned == stack = <<>> /\ returns # <<>>
Result == returns[Len(returns)]

\* the host serializes the expression it got back
Serialize ==
    /\ Returned
    /\ serialized = JSUndefined
    /\ IsExpression(Result.val)
    /\ serialized' = serialize(Result.val)
    /\ UNCHANGED <<stack, errors, returns>>

\* the types the host expects of a curve
CurveExpectedTypes == { NumberType, ColorType, StringType, array(NumberType) }

\* the host calls parseExpression with a root context, or Curve.parse itself
\* with or without an expected type; the errors array of the root context is
\* empty or holds the diagnostic of an earlier parse
HostParses ==
    /\ errors \in { <<>>, << PriorError >> }
    /\ \E f \in
            { ParseExpressionFrame(expr, ParsingContext(<<>>, t), errors) :
                  expr \in LeafExprs, t \in ExpectedTypes \cup {JSNull} }
            \cup
            { ParseExpressionFrame(UnreadCurve(n), ParsingContext(<<>>, t), errors) :
                  n \in 1..MaxArgs, t \in {JSNull, ValueType} }
            \cup
            { CurveParseFrame(UnreadCurve(n), ParsingContext(<<>>, JSNull), t, errors) :
                  n \in 0..MaxArgs, t \in CurveExpectedTypes \cup {JSUndefined} } :
        stack = << f >>

\* the host calls checkSubtype, with or without a context
HostChecks ==
    /\ errors = << PriorError >>
    /\ \E f \in
            { CheckSubtypeFrame(expected, t, context, errors) :
                  expected \in Types(MaxTypeDepth), t \in Types(MaxTypeDepth),
                  context \in { JSUndefined, ParsingContext(<<>>, JSNull) } } :
        stack = << f >>

Init ==
    /\ returns = <<>>
    /\ serialized = JSUndefined
    /\ (HostParses \/ HostChecks)

Next ==
    \/ ParseExpressionEnter
    \/ ParseExpressionCheck
    \/ CurveParseArity
    \/ CurveParseInterpolation
    \/ CurveParseInput
    \/ CurveParseInputReturned
    \/ CurveParseLabel
    \/ CurveParseValue
    \/ CurveParseValueReturned
    \/ CurveParseFinal
    \/ CheckSubtypeCall
    \/ Serialize

Spec == Init /\ [][Next]_vars

(***************************************************************************)
(* Observations on the calls that have returned                            *)
(***************************************************************************)
\* what the registered parser returned to a parseExpression frame: null when
\* parseExpression returned before calling one
Parsed(frame) == IF frame.recv = JSUndefined THEN JSNull ELSE frame.recv.val

\* the returns of calls of fn
ReturnsOf(fn) == { k \in 1..Len(returns) : returns[k].frame.fn = fn }

\* the diagnostic a return left last in the errors array
LastError(r) == r.errors[Len(r.errors)]

\* checkSubtype(expected, t) succeeds
IsSubtype(expected, t) == checkSubtype(expected, t, JSUndefined).ret = JSNull

\* Number, Color, or an Array of Number of any length
Interpolatable(type) ==
    \/ type \in {NumberType, ColorType}
    \/ Kind(type) = "Array" /\ type.itemType = NumberType

(***************************************************************************)
(* C1.  Curve.parse parses its input through parseExpression in a child    *)
(* context whose path is the curve's path extended by 2 and whose expected *)
(* type is Number; an input of type Number passes the input step, and an   *)
(* input whose type is not a subtype of Number makes the curve return      *)
(* nothing with a diagnostic whose key is the curve's key followed by [2]. *)
(***************************************************************************)
C1_InputParsedAsNumber ==
    \* the context of the call
    /\ \A k \in 1..Len(stack) - 1 :
          stack[k].fn = "Curve.parse" /\ stack[k].pc = "input returned" =>
              stack[k + 1].context =
                  ParsingContext(Append(stack[k].context.path, 2), NumberType)
    \* an input that parses passes exactly when its type is a subtype of Number
    /\ Running("Curve.parse", "input returned") /\ Top.recv # JSUndefined
          /\ IsExpression(Parsed(returns[Len(returns)].frame))
          => (Truthy(Top.recv.val)
                <=> IsSubtype(NumberType, Parsed(returns[Len(returns)].frame).type))
    \* the diagnostic of an input of another type
    /\ \A k \in ReturnsOf("Curve.parse") :
          /\ returns[k].frame.pc = "input returned"
          /\ IsExpression(Parsed(returns[k - 1].frame))
          => /\ returns[k].val = JSNull
             /\ LastError(returns[k]).key = returns[k].frame.context.key \o "[2]"

(***************************************************************************)
(* C2.  With no expected type supplied by the caller, Curve.parse parses   *)
(* the first stop value with no expected type and every later stop value   *)
(* with the first stop's type as expected type: a returned Curve has the   *)
(* type of its first stop, every stop's type is a subtype of it, and a     *)
(* later stop whose type is not a subtype of it makes the parse return     *)
(* nothing.                                                                *)
(***************************************************************************)
C2_FirstStopTypeBinds ==
    /\ \A k \in 1..Len(stack) - 1 :
          /\ stack[k].fn = "Curve.parse"
          /\ stack[k].pc = "value returned"
          /\ stack[k].expectedType = JSUndefined
          => stack[k + 1].context.expectedType =
                 IF stack[k].stops = <<>> THEN JSNull ELSE stack[k].stops[1][2].type
    /\ \A k \in ReturnsOf("Curve.parse") :
          LET r == returns[k] IN
          r.frame.expectedType = JSUndefined =>
              /\ IsExpression(r.val) =>
                    /\ r.val.type = r.val.stops[1][2].type
                    /\ \A n \in 1..Len(r.val.stops) :
                          IsSubtype(r.val.type, r.val.stops[n][2].type)
              /\ r.frame.pc = "value returned"
                    /\ IsExpression(Parsed(returns[k - 1].frame)) =>
                        /\ r.frame.stops # <<>>
                        /\ ~IsSubtype(r.frame.stops[1][2].type,
                                      Parsed(returns[k - 1].frame).type)

(***************************************************************************)
(* C6.  In every Curve that Curve.parse returns the stop labels are        *)
(* strictly ascending: of two consecutive stops the earlier label is less  *)
(* than the later one.                                                     *)
(***************************************************************************)
C6_LabelsStrictlyAscending ==
    \A k \in ReturnsOf("Curve.parse") :
        IsExpression(returns[k].val) =>
            \A n \in 1..Len(returns[k].val.stops) - 1 :
                returns[k].val.stops[n][1].number < returns[k].val.stops[n + 1][1].number

(***************************************************************************)
(* C7.  With a linear, exponential or cubic-bezier strategy Curve.parse    *)
(* returns a Curve only when the output type is Number, Color or an Array  *)
(* of Number (any length), and does return one for each of these when the  *)
(* rest is valid; otherwise it returns nothing with a "not interpolatable" *)
(* diagnostic.  With the step strategy the output type is not restricted.  *)
(***************************************************************************)
C7_InterpolatableOutput ==
    \A k \in ReturnsOf("Curve.parse") :
        LET r == returns[k] IN
        /\ IsExpression(r.val) /\ r.val.interpolation.name # "step" =>
              Interpolatable(r.val.type)
        /\ r.frame.pc = "final" =>
              IF r.frame.interpolation.name = "step" \/ Interpolatable(r.frame.outputType)
              THEN IsExpression(r.val)
              ELSE /\ r.val = JSNull
                   /\ LastError(r) =
                          error(r.frame.context,
                                NotInterpolatableMessage(r.frame.interpolation,
                                                         r.frame.outputType), <<1>>)

(***************************************************************************)
(* C8.  A curve whose stop labels are ascending and whose stop values are  *)
(* valid parses; a curve in which a label is smaller than the label of the *)
(* stop before it returns nothing, and the diagnostic has the key of that  *)
(* label in the array: the curve's key followed by [i + 3] for the label   *)
(* at index i of the label/value list.                                     *)
(***************************************************************************)
C8_AscendingStopsParse ==
    \A k \in ReturnsOf("Curve.parse") :
        LET r == returns[k]
            f == r.frame
        IN
        \* a descending label is reported at its own position
        /\ f.pc = "label" /\ TypeOf(f.label) = "number" =>
              /\ r.val = JSNull
              /\ f.stops[Len(f.stops)][1].number > f.label.number
              /\ LastError(r).key = f.context.key \o KeyOf(<< f.i + 3 >>)
        \* a stop is refused only for its label or for an invalid value: one
        \* that does not parse, or whose type does not fit the output type
        /\ f.pc = "value returned" /\ r.val = JSNull =>
              \/ ~IsExpression(Parsed(returns[k - 1].frame))
              \/ /\ Truthy(f.outputType)
                 /\ ~IsSubtype(f.outputType, Parsed(returns[k - 1].frame).type)

(***************************************************************************)
(* C3.  Every call of parseExpression, at any depth, and every call of     *)
(* Curve.parse it dispatches to, leaves the shared errors array with       *)
(* exactly one more entry when it returns nothing and unchanged when it    *)
(* returns an expression: a caller adds nothing to the diagnostic of the   *)
(* call that failed under it.                                              *)
(***************************************************************************)
C3_OneDiagnosticPerFailure ==
    \A k \in ReturnsOf("parseExpression") \cup ReturnsOf("Curve.parse") :
        LET r == returns[k] IN
        IF r.val = JSNull
        THEN /\ Len(r.errors) = Len(r.frame.entry) + 1
             /\ SubSeq(r.errors, 1, Len(r.frame.entry)) = r.frame.entry
        ELSE /\ IsExpression(r.val)
             /\ r.errors = r.frame.entry

\* a parse whose failure came up through a nested curve: three calls or more
\* returned nothing on one diagnostic, added to the one of an earlier parse
C3_Witness ==
    /\ Returned
    /\ Result.frame.fn = "parseExpression"
    /\ Result.val = JSNull
    /\ Cardinality({ k \in ReturnsOf("Curve.parse") : returns[k].val = JSNull }) >= 2
    /\ \E k \in ReturnsOf("parseExpression") : IsExpression(returns[k].val)
    /\ Len(errors) = 2

(***************************************************************************)
(* C4.  When the context has an expected type and the registered parser    *)
(* returned an expression, parseExpression returns that expression if      *)
(* checkSubtype(expectedType, parsed.type) succeeds and nothing otherwise: *)
(* the type of an expression returned under an expected type is a subtype  *)
(* of it.                                                                  *)
(***************************************************************************)
C4_ExpectedTypeEnforced ==
    \A k \in ReturnsOf("parseExpression") :
        LET r == returns[k]
            parsed == Parsed(r.frame)
            expected == r.frame.context.expectedType
        IN
        /\ IsExpression(parsed) /\ Truthy(expected) =>
              IF IsSubtype(expected, parsed.type) THEN r.val = parsed ELSE r.val = JSNull
        /\ IsExpression(r.val) /\ Truthy(expected) => IsSubtype(expected, r.val.type)
        /\ IsExpression(r.val) /\ expected \in {NumberType, StringType, ColorType, ObjectType}
              => r.val.type \in {expected, ErrorType}

\* a String expression refused where a Number is expected
C4_Witness ==
    /\ Returned
    /\ Result.frame.fn = "parseExpression"
    /\ Result.frame.context.expectedType = NumberType
    /\ IsExpression(Parsed(Result.frame))
    /\ Parsed(Result.frame).type = StringType
    /\ Result.val = JSNull

(***************************************************************************)
(* C5.  For every JSON array j that Curve.parse accepts, serialize() of    *)
(* the Curve is j: the same interpolation array, the same input and the    *)
(* same labels and values in the same order (each sub-expression           *)
(* serializing to the JSON it was parsed from).                            *)
(***************************************************************************)
\* the JSON the host's call was given
GivenJSON == IF Result.frame.fn = "Curve.parse" THEN Result.frame.args ELSE Result.frame.expr

C5_RoundTrip ==
    Returned /\ serialized # JSUndefined /\ Result.val.class = "Curve" =>
        serialized = GivenJSON

\* the interpolation array holds its name and nothing but the parameters of
\* its strategy
ExactInterpolation(interpolation) ==
    interpolation.length =
        CASE interpolation.array[1] = JSString("exponential") -> 2
          [] interpolation.array[1] = JSString("cubic-bezier") -> 5
          [] OTHER -> 1

\* C5 as amended: the same, for a j whose interpolation array holds nothing
\* after the parameters of its strategy
C5_RoundTripExactInterpolation ==
    Returned /\ serialized # JSUndefined /\ Result.val.class = "Curve"
        /\ ExactInterpolation(GivenJSON.array[2])
        => serialized = GivenJSON

\* an exponential curve of two stops on a nested curve, serialized
C5_Witness ==
    /\ Returned
    /\ serialized # JSUndefined
    /\ Result.val.class = "Curve"
    /\ Result.val.interpolation.name = "exponential"
    /\ ExactInterpolation(GivenJSON.array[2])
    /\ Len(Result.val.stops) = 2
    /\ Result.val.input.class = "Curve"
    /\ serialized = GivenJSON

(***************************************************************************)
(* C9.  checkSubtype with expected = Value succeeds exactly when the       *)
(* actual type is Error, Value, or one of Null, Number, String, Boolean,   *)
(* Color, Object, Array(Value) of unconstrained length, and fails for      *)
(* every other actual type; the member attempts append no diagnostics and  *)
(* a failure appends exactly one, naming Value and the actual type.        *)
(***************************************************************************)
C9_ValueAcceptsExactlyItsMembers ==
    \A k \in ReturnsOf("checkSubtype") :
        LET r == returns[k] IN
        r.frame.expected = ValueType =>
            IF r.frame.t \in { ErrorType, ValueType, NullType, NumberType, StringType,
                               BooleanType, ColorType, ObjectType, array(ValueType) }
            THEN r.val = JSNull /\ r.errors = r.frame.entry
            ELSE /\ r.val = JSString(SubtypeMessage(ValueType, r.frame.t))
                 /\ r.errors = r.frame.entry \o
                        IF Truthy(r.frame.context)
                        THEN << ParsingError(r.frame.context.key, r.val.string) >>
                        ELSE <<>>

\* an actual type is under Value when it is Error, Value, a member, or an
\* Array of any length of a type under Value
RECURSIVE UnderValue(_)
UnderValue(t) ==
    \/ t \in { ErrorType, ValueType, NullType, NumberType, StringType,
               BooleanType, ColorType, ObjectType }
    \/ Kind(t) = "Array" /\ UnderValue(t.itemType)

\* C9 as amended: Value accepts Error, Value, the members and every Array, of
\* any length, of a type it accepts, which is every type there is; no call with
\* expected = Value appends a diagnostic
C9_ValueAcceptsArraysOfValues ==
    \A k \in ReturnsOf("checkSubtype") :
        LET r == returns[k] IN
        r.frame.expected = ValueType =>
            /\ UnderValue(r.frame.t)
            /\ r.val = JSNull
            /\ r.errors = r.frame.entry

\* an Array of Number of length 3 accepted as a Value, with a context
C9_Witness ==
    /\ Returned
    /\ Result.frame.fn = "checkSubtype"
    /\ Result.frame.expected = ValueType
    /\ Result.frame.t = arrayN(NumberType, 3)
    /\ Truthy(Result.frame.context)
    /\ Result.val = JSNull

(***************************************************************************)
(* C10.  checkSubtype with expected = Array(itemType, length) and an       *)
(* actual type other than Error succeeds if and only if the actual type is *)
(* an Array whose item type passes checkSubtype(itemType, actual item      *)
(* type) and the expected length is unconstrained or equal to the actual   *)
(* length; an expected array of unconstrained length accepts an actual     *)
(* array of any fixed length.                                              *)
(***************************************************************************)
C10_ArraySubtype ==
    \A k \in ReturnsOf("checkSubtype") :
        LET r == returns[k]
            expected == r.frame.expected
            t == r.frame.t
        IN
        Kind(expected) = "Array" /\ t # ErrorType =>
            /\ r.val = JSNull <=>
                  /\ Kind(t) = "Array"
                  /\ IsSubtype(expected.itemType, t.itemType)
                  /\ ~HasN(expected) \/ (HasN(t) /\ expected.N = t.N)
            /\ r.val # JSNull => r.val = JSString(SubtypeMessage(expected, t))
            /\ r.errors = r.frame.entry \o
                   IF r.val # JSNull /\ Truthy(r.frame.context)
                   THEN << ParsingError(r.frame.context.key, r.val.string) >>
                   ELSE <<>>

\* Array(Number, 2) refused where Array(Number, 3) is expected
C10_Witness ==
    /\ Returned
    /\ Result.frame.fn = "checkSubtype"
    /\ Result.frame.expected = arrayN(NumberType, 3)
    /\ Result.frame.t = arrayN(NumberType, 2)
    /\ Truthy(Result.frame.context)
    /\ Result.val # JSNull
    /\ Len(errors) = 2

====
